---- MODULE Spec2Model ----
(***************************************************************************)
(* The order / inventory reservation workflow of bloodbank.py: order       *)
(* placement, simulated payment, retailer status update with restock, and  *)
(* manual stocking, over the committed contents of the MySQL tables        *)
(* inventory_batches, orders, order_items and payments (Spec); and the     *)
(* donation intake of the Retailer Dashboard over donors, donations and    *)
(* inventory_batches (DonationSpec); and order placement on stock that     *)
(* ages as days pass (ShelfSpec).                                          *)
(*                                                                         *)
(* Every Streamlit session runs one handler at a time; handlers of         *)
(* different sessions interleave at their database statements.  The        *)
(* variables batches, orders, items and payments hold COMMITTED rows only: *)
(* the writes of an open transaction are private to its connection and     *)
(* reach these variables at commit(), or never.                            *)
(***************************************************************************)
EXTENDS Integers, Sequences, FiniteSets, TLC

\* ------------------------------------------------------------- bounds
MaxBatches == 1     \* batch ids the auto-increment counter may hand out
MaxOrders == 2      \* order ids the auto-increment counter may hand out
MaxDonors == 2      \* donor ids the auto-increment counter may hand out
MaxDonations == 2   \* donation ids the auto-increment counter may hand out
MaxDay == 1         \* midnights that may pass

\* ------------------------------------------------------------- users
\* rows of users/customers/retailers; a user's id doubles as its profile id
Customers == {"c1", "c2"}
Retailers == {"r1"}
Admins == {"adm"}
Users == Customers \cup Retailers \cup Admins
\* who passes the role check of the Customer Portal / the Retailer Dashboard
PortalUsers == Customers \cup Admins
DashUsers == Retailers \cup Admins

BatchIds == 1..MaxBatches
OrderIds == 1..MaxOrders
\* price_per_unit in hundredths (DECIMAL(10,2))
Prices == {125033}
\* the choices of the "New Status" select box
NewStatuses == {"confirmed", "preparing", "shipped", "delivered", "cancelled"}

\* rows of blood_types (seeded by init_db, never deleted): their ids
BloodTypes == {1, 2}
\* the shelf life that donation_form gives a batch, in days
ShelfLife == 35
\* the dates picked in the "Expiry date" field of add_inventory, in days
ExpiryDates == {0, ShelfLife}
\* what is typed into the "Donor phone" field; "" is a blank name or phone
Phones == {"", "p1", "p2"}
\* browser sessions at the Donation Management tab and who is signed in:
\* two of the same retailer account, one of the admin
IntakeSessions == {"t1", "t2", "t3"}
SessionUser == [t \in IntakeSessions |-> IF t = "t3" THEN "adm" ELSE "r1"]

\* no live st.cache_data entry
NoCache == [valid |-> FALSE, rows |-> {}]

VARIABLES
    batches,        \* inventory_batches: batch_id -> row
    nextBid,        \* AUTO_INCREMENT of inventory_batches
    orders,         \* orders: order_id -> row
    nextOid,        \* AUTO_INCREMENT of orders
    items,          \* order_items, in primary-key order
    payments,       \* payments: payment_id -> row
    nextPid,        \* AUTO_INCREMENT of payments
    lock,           \* exclusive row lock on a batch: its holder
    pc,             \* each session's position in its handler
    arg,            \* each session's handler-local variables
    ordersCache,    \* st.cache_data entry of the customer's order listing
    itemsEmpty,     \* order ids whose cached order_items result is empty
    beaten,         \* customers waiting for a batch that a rival's placement has just taken
    last,           \* how the handler step just taken ended
    donors,         \* donors: donor_id -> row
    nextDonorId,    \* AUTO_INCREMENT of donors
    donations,      \* donations: donation_id -> row
    nextDonationId, \* AUTO_INCREMENT of donations
    intake,         \* each dashboard session's position and locals in donation_form
    today           \* CURDATE() of the database server, in days

vars == <<batches, nextBid, orders, nextOid, items, payments, nextPid, lock,
          pc, arg, ordersCache, itemsEmpty, beaten, last,
          donors, nextDonorId, donations, nextDonationId, intake, today>>
db == <<batches, orders, items, payments>>
\* the state of the donation workflow
don == <<donors, nextDonorId, donations, nextDonationId, intake, today>>

\* ------------------------------------------------------------- helpers

\* float(row['price_per_unit']): a binary fraction.  The model keeps 20
\* fractional bits (a double keeps more for these amounts), rounding to nearest.
FloatUnit == 1048576
ToFloat(c) == (c \div 100) * FloatUnit + ((c % 100) * FloatUnit + 50) \div 100
\* a faulty variant: the float is cut, not rounded, to hundredths
ToDecimal2Cut(f) == (f \div FloatUnit) * 100 + ((f % FloatUnit) * 100) \div FloatUnit
\* a float stored into a DECIMAL(12,2) column: rounded to hundredths
ToDecimal2(f) == (f \div FloatUnit) * 100 + ((f % FloatUnit) * 100 + FloatUnit \div 2) \div FloatUnit

\* a faulty variant: the connection is opened with autocommit=True
PersistedAutocommit(done, committed) == done
\* How many of a transaction's `done` writes reach the committed tables on a
\* connection opened with autocommit=False: all at commit(), none otherwise.
Persisted(done, committed) == IF committed THEN done ELSE 0

\* @st.cache_data(ttl=30) fetch_df: the cached result while the entry lives
fetch_df(cache, fresh) == IF cache.valid THEN cache.rows ELSE fresh
Cached(rows) == [valid |-> TRUE, rows |-> rows]

\* q_orders: orders LEFT JOIN payments WHERE o.customer_id = user_id
OrdersListing(u) ==
    { [order_id |-> o, status |-> orders[o].status, payment_status |-> payments[p].status,
       payment_id |-> p] :
        <<o, p>> \in { x \in (DOMAIN orders) \X (DOMAIN payments) :
                         /\ orders[x[1]].customer_id = u
                         /\ payments[x[2]].order_id = x[1] } }
    \cup
    { [order_id |-> o, status |-> orders[o].status, payment_status |-> "NULL",
       payment_id |-> 0] :
        o \in { y \in DOMAIN orders :
                  /\ orders[y].customer_id = u
                  /\ \A p \in DOMAIN payments : payments[p].order_id # y } }

\* the rows of the listing that show the Pay Now button; a cache entry of the
\* listing is kept as these rows, the only ones a handler acts on
Payable(listing) == {row \in listing : row.status = "placed" /\ row.payment_status = "pending"}

\* a faulty variant: only a sold batch is refused
IsAvailableLoose(row) == row.status # "sold"
\* row['status'] != 'available' is the refusal; this is its negation
IsAvailable(row) == row.status = "available"

\* SELECT batch_id FROM order_items WHERE order_id = o
ItemsOf(o) == SelectSeq(items, LAMBDA it : it.order_id = o)

\* session t is inside a placement of batch b
InPlacement(t, b) == pc[t] \in {"wait", "locked"} /\ arg[t].batch_id = b

\* the handler-local variables of a session that runs no handler
IdleArg == [batch_id |-> 0, order_id |-> 0, open |-> FALSE, delivered |-> FALSE,
            batch_id_to_restock |-> 0]

\* the handler-local variables of a session outside donation_form
IdleIntake == [pc |-> "idle", phone |-> "", bt |-> 0, donor_id |-> 0, created |-> FALSE,
               donation_id |-> 0, collected_at |-> 0]

\* ------------------------------------------------------------- initial state
Init ==
    /\ batches = << >>
    /\ nextBid = 1
    /\ orders = << >>
    /\ nextOid = 1
    /\ items = << >>
    /\ payments = << >>
    /\ nextPid = 1
    /\ lock = [b \in BatchIds |-> "none"]
    /\ pc = [u \in Users |-> "idle"]
    /\ arg = [u \in Users |-> IdleArg]
    /\ ordersCache = [u \in Customers |-> NoCache]
    /\ itemsEmpty = {}
    /\ beaten = {}
    /\ last = "none"
    /\ donors = << >>
    /\ nextDonorId = 1
    /\ donations = << >>
    /\ nextDonationId = 1
    /\ intake = [t \in IntakeSessions |-> IdleIntake]
    /\ today = 0

\* ------------------------------------------------------------- manual stocking
\* a faulty variant: the tables carry no foreign key to retailers
HasRetailerRowAny(u) == TRUE
\* FOREIGN KEY (retailer_id) REFERENCES retailers: the INSERT is accepted
HasRetailerRow(u) == u \in Retailers

\* add_inventory: one autocommit INSERT of a batch of blood type bt priced p
\* that expires on day e; the id is used up even when the INSERT raises
AddInventory(s, p, bt, e) ==
    /\ s \in DashUsers
    /\ pc[s] = "idle"
    /\ nextBid <= MaxBatches
    /\ nextBid' = nextBid + 1
    /\ batches' = IF HasRetailerRow(s)
                  THEN batches @@ (nextBid :> [retailer_id |-> s, status |-> "available",
                                               price_per_unit |-> p, donation_id |-> 0,
                                               blood_type_id |-> bt, collected_at |-> today,
                                               expiry_date |-> e])
                  ELSE batches
    /\ last' = IF HasRetailerRow(s) THEN "stocked" ELSE "stock_failed"
    /\ UNCHANGED <<orders, nextOid, items, payments, nextPid, lock, pc, arg,
                   ordersCache, itemsEmpty, beaten>>
    /\ UNCHANGED don

\* ------------------------------------------------------------- order placement
\* Place Order pressed with a numeric batch id: a connection is opened
PlaceStart(s, b) ==
    /\ s \in PortalUsers
    /\ pc[s] = "idle"
    /\ nextOid + Cardinality({t \in PortalUsers : pc[t] \in {"wait", "locked"}}) <= MaxOrders
    /\ pc' = [pc EXCEPT ![s] = "wait"]
    /\ arg' = [arg EXCEPT ![s] = [IdleArg EXCEPT !.batch_id = b]]
    /\ last' = "none"
    /\ UNCHANGED <<batches, nextBid, orders, nextOid, items, payments, nextPid, lock,
                   ordersCache, itemsEmpty, beaten>>
    /\ UNCHANGED don

\* a faulty variant: a plain SELECT, which waits for no lock
GrantedUnlocked(b) == TRUE
\* whether SELECT ... FOR UPDATE on batch b is granted the row
Granted(b) == lock[b] = "none"

\* SELECT ... FOR UPDATE and the two early exits; conn.close() ends the
\* transaction of an early exit and frees the row
PlaceSelect(s) ==
    /\ pc[s] = "wait"
    /\ LET b == arg[s].batch_id IN
       IF b \notin DOMAIN batches
       THEN /\ pc' = [pc EXCEPT ![s] = "idle"]
            /\ arg' = [arg EXCEPT ![s] = IdleArg]
            /\ last' = "notfound"
            /\ UNCHANGED lock
       ELSE /\ Granted(b)
            /\ IF ~IsAvailable(batches[b])
               THEN /\ pc' = [pc EXCEPT ![s] = "idle"]
                    /\ arg' = [arg EXCEPT ![s] = IdleArg]
                    /\ last' = IF s \in beaten THEN "refused" ELSE "notavailable"
                    /\ UNCHANGED lock
               ELSE /\ pc' = [pc EXCEPT ![s] = "locked"]
                    /\ lock' = [lock EXCEPT ![b] = s]
                    /\ last' = "none"
                    /\ UNCHANGED arg
    /\ beaten' = IF pc'[s] = "idle" THEN beaten \ {s} ELSE beaten
    /\ UNCHANGED <<batches, nextBid, orders, nextOid, items, payments, nextPid,
                   ordersCache, itemsEmpty>>
    /\ UNCHANGED don

\* The four writes of a placement, of which the k-th raises (k = 5: none does).
\* n of them reach the committed tables.
PlaceTables(s, k) ==
    LET b == arg[s].batch_id
        row == batches[b]
        total == ToFloat(row.price_per_unit)
        oid == nextOid
        n == Persisted(k - 1, k = 5)
    IN  /\ orders' = IF n >= 1
                     THEN orders @@ (oid :> [customer_id |-> s, retailer_id |-> row.retailer_id,
                                             total_amount |-> ToDecimal2(total),
                                             status |-> "placed"])
                     ELSE orders
        /\ items' = IF n >= 2
                    THEN Append(items, [order_id |-> oid, batch_id |-> b,
                                        unit_price |-> row.price_per_unit,
                                        subtotal |-> row.price_per_unit])
                    ELSE items
        /\ payments' = IF n >= 3
                       THEN payments @@ (nextPid :> [order_id |-> oid,
                                                     amount |-> ToDecimal2(total),
                                                     method |-> "bank_transfer",
                                                     status |-> "pending"])
                       ELSE payments
        /\ batches' = IF n >= 4
                      THEN [batches EXCEPT ![b].status = "reserved"]
                      ELSE batches
        /\ nextOid' = nextOid + 1
        /\ nextPid' = IF k >= 3 THEN nextPid + 1 ELSE nextPid

\* a faulty variant: the notification's exception reaches the outer except branch
NotifyUncaught(raised) == IF raised THEN "failed" ELSE "committed"
\* The retailer notification that follows commit(): the lookup of the retailer's
\* address, the email and the SMS.  Whatever it raises is caught by its own
\* try/except and passed over; the result is how the placement ends.
Notify(raised) == IF raised THEN "committed_unnotified" ELSE "committed"

\* all four writes succeed, conn.commit(), the notification, conn.close()
PlaceCommit(s, raised) ==
    /\ pc[s] = "locked"
    /\ s \in Customers
    /\ PlaceTables(s, 5)
    /\ lock' = [lock EXCEPT ![arg[s].batch_id] = "none"]
    /\ pc' = [pc EXCEPT ![s] = "idle"]
    /\ arg' = [arg EXCEPT ![s] = IdleArg]
    /\ beaten' = (beaten \ {s}) \cup
                 {t \in Customers \ {s} : InPlacement(t, arg[s].batch_id)}
    /\ last' = Notify(raised)
    /\ UNCHANGED <<nextBid, ordersCache, itemsEmpty>>
    /\ UNCHANGED don

\* write k raises: "Order failed"; conn.close() is skipped, so the connection
\* stays open with its transaction and its row lock
PlaceFail(s, k) ==
    /\ pc[s] = "locked"
    /\ k \in 1..4
    /\ s \notin Customers => k = 1      \* orders.customer_id REFERENCES customers
    /\ PlaceTables(s, k)
    /\ lock' = [lock EXCEPT ![arg[s].batch_id] = "leaked"]
    /\ pc' = [pc EXCEPT ![s] = "idle"]
    /\ arg' = [arg EXCEPT ![s] = IdleArg]
    /\ beaten' = beaten \ {s}
    /\ last' = "failed"
    /\ UNCHANGED <<nextBid, ordersCache, itemsEmpty>>
    /\ UNCHANGED don

\* the abandoned connection is collected or times out: the server rolls back
ConnDrop(b) ==
    /\ lock[b] = "leaked"
    /\ lock' = [lock EXCEPT ![b] = "none"]
    /\ last' = "none"
    /\ UNCHANGED <<batches, nextBid, orders, nextOid, items, payments, nextPid, pc, arg,
                   ordersCache, itemsEmpty, beaten>>
    /\ UNCHANGED don

\* ------------------------------------------------------------- payment
\* the "My Orders & Payments" tab is rendered: fetch_df(q_orders)
ViewOrders(s) ==
    /\ s \in Customers
    /\ pc[s] = "idle"
    /\ ordersCache' = [ordersCache EXCEPT
                         ![s] = Cached(fetch_df(ordersCache[s], Payable(OrdersListing(s))))]
    /\ last' = "none"
    /\ UNCHANGED <<batches, nextBid, orders, nextOid, items, payments, nextPid, lock, pc,
                   arg, itemsEmpty, beaten>>
    /\ UNCHANGED don

\* 30 seconds pass: the cache entry of a listing expires
OrdersCacheExpire(s) ==
    /\ s \in Customers
    /\ ordersCache[s].valid
    /\ ordersCache' = [ordersCache EXCEPT ![s] = NoCache]
    /\ last' = "none"
    /\ UNCHANGED <<batches, nextBid, orders, nextOid, items, payments, nextPid, lock, pc,
                   arg, itemsEmpty, beaten>>
    /\ UNCHANGED don

\* UPDATE orders SET status='confirmed' WHERE order_id = o
PayOrders(tbl, o) ==
    [x \in DOMAIN tbl |-> IF x = o THEN [tbl[x] EXCEPT !.status = "confirmed"] ELSE tbl[x]]
\* UPDATE payments SET status='completed', method='upi' WHERE payment_id = p
PayPayments(tbl, p) ==
    [x \in DOMAIN tbl |-> IF x = p THEN [tbl[x] EXCEPT !.status = "completed", !.method = "upi"]
                          ELSE tbl[x]]

\* a faulty variant: no rollback, the updates made before the failure stay
PayTablesNoRollback(row, k) ==
    /\ orders' = IF k - 1 >= 1 THEN PayOrders(orders, row.order_id) ELSE orders
    /\ payments' = IF k - 1 >= 2 THEN PayPayments(payments, row.payment_id) ELSE payments

\* The two updates of "Simulate Pay Now" for a listing row, of which the k-th
\* raises (k = 3: none does); the except branch calls conn.rollback()
PayTables(row, k) ==
    LET n == Persisted(k - 1, k = 3) IN
    /\ orders' = IF n >= 1 THEN PayOrders(orders, row.order_id) ELSE orders
    /\ payments' = IF n >= 2 THEN PayPayments(payments, row.payment_id) ELSE payments

\* the button of order o is pressed: the script reruns, reads the listing
\* through fetch_df and runs the branch of the button
PayNow(s, o) ==
    /\ s \in Customers
    /\ pc[s] = "idle"
    /\ LET listing == fetch_df(ordersCache[s], Payable(OrdersListing(s))) IN
       /\ \E row \in listing :
            /\ row.order_id = o
            /\ PayTables(row, 3)
       /\ ordersCache' = [ordersCache EXCEPT ![s] = Cached(listing)]
    /\ last' = "paid"
    /\ UNCHANGED <<batches, nextBid, nextOid, items, nextPid, lock, pc, arg, itemsEmpty,
                   beaten>>
    /\ UNCHANGED don

PayFail(s, o, k) ==
    /\ s \in Customers
    /\ pc[s] = "idle"
    /\ k \in 1..2
    /\ LET listing == fetch_df(ordersCache[s], Payable(OrdersListing(s))) IN
       /\ \E row \in listing :
            /\ row.order_id = o
            /\ PayTables(row, k)
       /\ ordersCache' = [ordersCache EXCEPT ![s] = Cached(listing)]
    /\ last' = "payfailed"
    /\ UNCHANGED <<batches, nextBid, nextOid, items, nextPid, lock, pc, arg, itemsEmpty,
                   beaten>>
    /\ UNCHANGED don

\* ------------------------------------------------------------- retailer status update
\* UPDATE orders SET status=ns WHERE order_id=o AND retailer_id=rid
SetStatus(tbl, o, rid, ns) ==
    [x \in DOMAIN tbl |-> IF x = o /\ tbl[x].retailer_id = rid
                          THEN [tbl[x] EXCEPT !.status = ns] ELSE tbl[x]]

\* Update Status pressed: the first execute(), committed on its own
UpdateOrder(s, o, ns) ==
    /\ s \in DashUsers
    /\ pc[s] = "idle"
    /\ orders' = SetStatus(orders, o, s, ns)
    /\ IF ns = "cancelled"
       THEN /\ pc' = [pc EXCEPT ![s] = "fetch_items"]
            /\ arg' = [arg EXCEPT ![s] = [IdleArg EXCEPT !.order_id = o,
                          !.open = /\ o \in DOMAIN orders
                                   /\ orders[o].retailer_id = s
                                   /\ orders[o].status \in {"placed", "confirmed"},
                          !.delivered = /\ o \in DOMAIN orders
                                        /\ orders[o].retailer_id = s
                                        /\ orders[o].status = "delivered"]]
       ELSE UNCHANGED <<pc, arg>>
    /\ last' = "none"
    /\ UNCHANGED <<batches, nextBid, nextOid, items, payments, nextPid, lock, ordersCache,
                   itemsEmpty, beaten>>
    /\ UNCHANGED don

\* items = fetch_df("SELECT batch_id FROM order_items WHERE order_id=%s")
FetchItems(s) ==
    /\ pc[s] = "fetch_items"
    /\ LET o == arg[s].order_id
           df == IF o \in itemsEmpty THEN << >> ELSE ItemsOf(o)
       IN IF df = << >>
          THEN /\ itemsEmpty' = itemsEmpty \cup {o}
               /\ pc' = [pc EXCEPT ![s] = "idle"]
               /\ arg' = [arg EXCEPT ![s] = IdleArg]
          ELSE /\ pc' = [pc EXCEPT ![s] = "restock"]
               /\ arg' = [arg EXCEPT ![s].batch_id_to_restock = df[1].batch_id]
               /\ UNCHANGED itemsEmpty
    /\ last' = "none"
    /\ UNCHANGED <<batches, nextBid, orders, nextOid, items, payments, nextPid, lock,
                   ordersCache, beaten>>
    /\ UNCHANGED don

\* 30 seconds pass: a cached empty order_items result expires
ItemsCacheExpire(o) ==
    /\ o \in itemsEmpty
    /\ itemsEmpty' = itemsEmpty \ {o}
    /\ last' = "none"
    /\ UNCHANGED <<batches, nextBid, orders, nextOid, items, payments, nextPid, lock, pc,
                   arg, ordersCache, beaten>>
    /\ UNCHANGED don

\* UPDATE inventory_batches SET status='available' WHERE batch_id = b
RestockTable(tbl, b) ==
    [x \in DOMAIN tbl |-> IF x = b THEN [tbl[x] EXCEPT !.status = "available"] ELSE tbl[x]]

\* the second execute(): it waits while a placement holds the row
Restock(s) ==
    /\ pc[s] = "restock"
    /\ LET b == arg[s].batch_id_to_restock IN
       /\ lock[b] = "none"
       /\ batches' = RestockTable(batches, b)
       /\ beaten' = {t \in beaten : ~InPlacement(t, b)}
    /\ pc' = [pc EXCEPT ![s] = "idle"]
    /\ arg' = [arg EXCEPT ![s] = IdleArg]
    /\ last' = "none"
    /\ UNCHANGED <<nextBid, orders, nextOid, items, payments, nextPid, lock, ordersCache,
                   itemsEmpty>>
    /\ UNCHANGED don

\* the second execute() raises (lock wait timeout, lost connection):
\* "Failed to update order"
RestockFail(s) ==
    /\ pc[s] = "restock"
    /\ pc' = [pc EXCEPT ![s] = "idle"]
    /\ arg' = [arg EXCEPT ![s] = IdleArg]
    /\ last' = "restock_failed"
    /\ UNCHANGED <<batches, nextBid, orders, nextOid, items, payments, nextPid, lock,
                   ordersCache, itemsEmpty, beaten>>
    /\ UNCHANGED don

\* ------------------------------------------------------------- donation intake
\* the state of the order workflow, which an intake leaves alone
ord == <<orders, nextOid, items, payments, nextPid, lock, pc, arg, ordersCache,
         itemsEmpty, beaten>>

\* a faulty variant: the lookup has no WHERE clause
FindDonorFirst(rows, ph) ==
    IF DOMAIN rows = {} THEN 0 ELSE CHOOSE d \in DOMAIN rows : \A x \in DOMAIN rows : d <= x
\* SELECT donor_id FROM donors WHERE phone = ph; fetchone(): 0 stands for None
FindDonor(rows, ph) ==
    IF \E d \in DOMAIN rows : rows[d].phone = ph
    THEN CHOOSE d \in DOMAIN rows : rows[d].phone = ph
    ELSE 0

\* a faulty variant: the phone column carries no UNIQUE index
PhoneTakenNoIndex(rows, ph) == FALSE
\* phone VARCHAR(30) UNIQUE: a committed row with this phone makes the INSERT raise
PhoneTaken(rows, ph) == \E d \in DOMAIN rows : rows[d].phone = ph

\* another open transaction has inserted a donor with this phone: the INSERT
\* waits for that transaction to end
PhonePending(t, ph) ==
    \E u \in IntakeSessions \ {t} : intake[u].created /\ intake[u].phone = ph

\* Record Donation pressed with phone ph and blood type bt: the blank check,
\* get_conn(autocommit=False) and the lookup of the donor
DonationSubmit(t, ph, bt) ==
    /\ intake[t].pc = "idle"
    /\ IF ph = ""
       THEN /\ last' = "don_rejected"
            /\ UNCHANGED intake
       ELSE LET busy == Cardinality({u \in IntakeSessions : intake[u].pc # "idle"})
                did == FindDonor(donors, ph)
            IN  /\ nextDonorId + busy <= MaxDonors
                /\ nextDonationId + busy <= MaxDonations
                /\ intake' = [intake EXCEPT ![t] =
                                 [IdleIntake EXCEPT !.pc = IF did = 0 THEN "donor" ELSE "donation",
                                                    !.phone = ph, !.bt = bt, !.donor_id = did]]
                /\ last' = "none"
    /\ UNCHANGED <<batches, nextBid, donors, nextDonorId, donations, nextDonationId, today>>
    /\ UNCHANGED ord

\* INSERT INTO donors, accepted; did = cur.lastrowid
DonationDonor(t) ==
    /\ intake[t].pc = "donor"
    /\ ~PhoneTaken(donors, intake[t].phone)
    /\ ~PhonePending(t, intake[t].phone)
    /\ intake' = [intake EXCEPT ![t].pc = "donation", ![t].created = TRUE,
                                ![t].donor_id = nextDonorId]
    /\ nextDonorId' = nextDonorId + 1
    /\ last' = "none"
    /\ UNCHANGED <<batches, nextBid, donors, donations, nextDonationId, today>>
    /\ UNCHANGED ord

\* INSERT INTO donations with collected_at = NOW(), accepted
DonationDonation(t) ==
    /\ intake[t].pc = "donation"
    /\ HasRetailerRow(SessionUser[t])
    /\ intake' = [intake EXCEPT ![t].pc = "batch", ![t].donation_id = nextDonationId,
                                ![t].collected_at = today]
    /\ nextDonationId' = nextDonationId + 1
    /\ last' = "none"
    /\ UNCHANGED <<batches, nextBid, donors, nextDonorId, donations, today>>
    /\ UNCHANGED ord

\* The writes of an intake, in the order donor, donation, batch, of which `done`
\* were made; those that reach the committed tables.
IntakeTables(t, done, committed, brow) ==
    LET w == intake[t]
        n == Persisted(done, committed)
    IN  /\ donors' = IF n >= 1 /\ w.created
                     THEN donors @@ (w.donor_id :> [phone |-> w.phone, blood_type_id |-> w.bt])
                     ELSE donors
        /\ donations' = IF n >= 2
                        THEN donations @@ (w.donation_id :>
                                 [donor_id |-> w.donor_id, retailer_id |-> SessionUser[t],
                                  collected_at |-> w.collected_at])
                        ELSE donations
        /\ batches' = IF n >= 3 THEN batches @@ (nextBid :> brow) ELSE batches

\* INSERT INTO inventory_batches with expiry DATE_ADD(CURDATE(), INTERVAL 35 DAY),
\* accepted, and conn.commit()
DonationCommit(t, p) ==
    /\ intake[t].pc = "batch"
    /\ IntakeTables(t, 3, TRUE,
                    [retailer_id |-> SessionUser[t], status |-> "available",
                     price_per_unit |-> p, donation_id |-> intake[t].donation_id,
                     blood_type_id |-> intake[t].bt, collected_at |-> today,
                     expiry_date |-> today + ShelfLife])
    /\ nextBid' = nextBid + 1
    /\ intake' = [intake EXCEPT ![t] = IdleIntake]
    /\ last' = "don_committed"
    /\ UNCHANGED <<nextDonorId, nextDonationId, today>>
    /\ UNCHANGED ord

\* The statement the intake has come to raises (a duplicate phone, a retailer_id
\* that is no retailers row, a lost connection): conn.rollback(), "Failed to
\* record donation", conn.close().  The id of the refused row is used up.
DonationFail(t) ==
    LET at == intake[t].pc IN
    /\ at \in {"donor", "donation", "batch"}
    /\ IntakeTables(t, CASE at = "donor" -> 0 [] at = "donation" -> 1 [] at = "batch" -> 2,
                    FALSE, << >>)
    /\ nextDonorId' = IF at = "donor" THEN nextDonorId + 1 ELSE nextDonorId
    /\ nextDonationId' = IF at = "donation" THEN nextDonationId + 1 ELSE nextDonationId
    /\ nextBid' = IF at = "batch" THEN nextBid + 1 ELSE nextBid
    /\ intake' = [intake EXCEPT ![t] = IdleIntake]
    /\ last' = CASE at = "donor" /\ PhoneTaken(donors, intake[t].phone) -> "don_duplicate"
                 [] at = "donation" /\ ~HasRetailerRow(SessionUser[t]) -> "don_no_retailer"
                 [] OTHER -> "don_failed"
    /\ UNCHANGED today
    /\ UNCHANGED ord

\* the server's clock passes midnight
Midnight ==
    /\ today < MaxDay
    /\ today' = today + 1
    /\ last' = "none"
    /\ UNCHANGED <<batches, nextBid, donors, nextDonorId, donations, nextDonationId, intake>>
    /\ UNCHANGED ord

\* ------------------------------------------------------------- properties

\* the batches that the order items of order o reference
BatchesOf(o) == {items[i].batch_id : i \in {j \in 1..Len(items) : items[j].order_id = o}}

\* C1: a customer whose placement waited on a batch while a rival's placement
\* of that batch committed ends refused as "not available" and writes nothing;
\* the rival's commit made exactly one order, order item and payment and left
\* the batch reserved.
ClaimC1 ==
    [][\A t \in Customers :
         /\ (t \in beaten /\ pc'[t] # pc[t]) =>
               /\ pc'[t] = "idle"
               /\ last' = "refused"
               /\ UNCHANGED db
         /\ (t \in beaten' /\ t \notin beaten) =>
               /\ Cardinality(DOMAIN orders') = Cardinality(DOMAIN orders) + 1
               /\ Len(items') = Len(items) + 1
               /\ Cardinality(DOMAIN payments') = Cardinality(DOMAIN payments) + 1
               /\ batches'[arg[t].batch_id].status = "reserved"]_vars
WitnessC1 == last = "refused"

\* C2: a placement attempt on a batch id that matches no batch, or on a batch
\* whose status is not available, ends there and leaves every table unchanged.
ClaimC2 ==
    [][\A s \in PortalUsers :
         (/\ pc[s] = "wait"
          /\ pc'[s] # "wait"
          /\ \/ arg[s].batch_id \notin DOMAIN batches
             \/ batches[arg[s].batch_id].status # "available")
         => /\ pc'[s] = "idle"
            /\ last' \in {"notfound", "notavailable", "refused"}
            /\ UNCHANGED db]_vars
WitnessC2 == last = "notavailable" /\ \E b \in DOMAIN batches : batches[b].status = "reserved"

\* C3: when a write of a placement attempt fails, no order, order item, payment
\* or batch change of the attempt is committed and the batch is still available.
ClaimC3 ==
    [][\A s \in PortalUsers :
         (pc[s] = "locked" /\ pc'[s] = "idle" /\ last' = "failed")
         => /\ UNCHANGED db
            /\ batches'[arg[s].batch_id].status = "available"]_vars
WitnessC3 == last = "failed" /\ nextPid > 1 /\ payments = << >>

\* C4: a payment completion changes an order or a payment only if the stored
\* order status is placed and the stored payment status is pending.
ClaimC4 ==
    [][last' = "paid" =>
         /\ \A o \in DOMAIN orders :
              orders'[o] # orders[o] => orders[o].status = "placed"
         /\ \A q \in DOMAIN payments :
              payments'[q] # payments[q] =>
                 /\ payments[q].status = "pending"
                 /\ orders[payments[q].order_id].status = "placed"]_vars

\* C5: no committed state shows an order cancelled while the batch it reserved
\* is still reserved (and held by no other order).
ClaimC5 ==
    \A o \in DOMAIN orders : \A b \in BatchesOf(o) :
        (orders[o].status = "cancelled" /\ batches[b].status = "reserved")
        => \E o2 \in DOMAIN orders \ {o} :
              b \in BatchesOf(o2) /\ orders[o2].status # "cancelled"

\* C6: a status update, cancellation included, requested by a user who is not
\* the order's retailer leaves the order and the status of its batch unchanged.
ClaimC6 ==
    [][\A s \in DashUsers :
         LET o == IF pc[s] = "idle" THEN arg'[s].order_id ELSE arg[s].order_id IN
         (/\ pc'[s] # pc[s]
          /\ pc[s] \in {"fetch_items", "restock"} \/ pc'[s] = "fetch_items"
          /\ o \in DOMAIN orders
          /\ orders[o].retailer_id # s)
         => /\ orders'[o] = orders[o]
            /\ \A b \in BatchesOf(o) : batches'[b].status = batches[b].status]_vars

\* C7: when the cancellation of an order by its retailer, requested while the
\* order was placed or confirmed, has run to its end without an error, the
\* order is cancelled and its batch is available.
ClaimC7 ==
    [][\A s \in DashUsers :
         (/\ pc[s] \in {"fetch_items", "restock"}
          /\ pc'[s] = "idle"
          /\ arg[s].open
          /\ last' # "restock_failed")
         => /\ orders'[arg[s].order_id].status = "cancelled"
            /\ \A b \in BatchesOf(arg[s].order_id) : batches'[b].status = "available"
            /\ BatchesOf(arg[s].order_id) # {}]_vars

\* C8: a committed placement by customer s of a batch b priced p adds exactly
\* one order (placed, total p, customer s, the batch's retailer), one order item
\* (batch b, unit price p, subtotal p) and one payment (amount p, bank_transfer,
\* pending) and sets b to reserved, changing nothing else in the tables.
ClaimC8 ==
    [][\A s \in PortalUsers :
         (pc[s] = "locked" /\ pc'[s] = "idle" /\ last' = "committed")
         => LET b == arg[s].batch_id
                p == batches[b].price_per_unit
            IN \E o \in DOMAIN orders' \ DOMAIN orders :
               \E q \in DOMAIN payments' \ DOMAIN payments :
                 /\ DOMAIN orders' = DOMAIN orders \cup {o}
                 /\ \A x \in DOMAIN orders : orders'[x] = orders[x]
                 /\ orders'[o] = [customer_id |-> s, retailer_id |-> batches[b].retailer_id,
                                  total_amount |-> p, status |-> "placed"]
                 /\ items' = Append(items, [order_id |-> o, batch_id |-> b,
                                            unit_price |-> p, subtotal |-> p])
                 /\ DOMAIN payments' = DOMAIN payments \cup {q}
                 /\ \A x \in DOMAIN payments : payments'[x] = payments[x]
                 /\ payments'[q] = [order_id |-> o, amount |-> p,
                                    method |-> "bank_transfer", status |-> "pending"]
                 /\ DOMAIN batches' = DOMAIN batches
                 /\ batches'[b] = [batches[b] EXCEPT !.status = "reserved"]
                 /\ \A x \in DOMAIN batches \ {b} : batches'[x] = batches[x]]_vars
WitnessC8 ==
    /\ last = "committed"
    /\ \E o \in DOMAIN orders : orders[o].status = "placed" /\ orders[o].total_amount = 125033

\* C9: a payment completion, failed or not, either leaves orders and payments
\* as they were or leaves one order confirmed and its payment completed.
ClaimC9 ==
    [][last' \in {"paid", "payfailed"} =>
         \/ UNCHANGED <<orders, payments>>
         \/ \E o \in DOMAIN orders : \E q \in DOMAIN payments :
              /\ payments[q].order_id = o
              /\ orders'[o].status = "confirmed"
              /\ payments'[q].status = "completed"
              /\ DOMAIN orders' = DOMAIN orders
              /\ DOMAIN payments' = DOMAIN payments
              /\ \A x \in DOMAIN orders \ {o} : orders'[x] = orders[x]
              /\ \A x \in DOMAIN payments \ {q} : payments'[x] = payments[x]]_vars
WitnessC9 ==
    /\ last = "paid"
    /\ \E q \in DOMAIN payments :
         payments[q].status = "completed" /\ orders[payments[q].order_id].status = "confirmed"

\* C10: a batch goes from reserved or sold to available only in the restock
\* step of a cancellation of an order that references it and is cancelled.
ClaimC10 ==
    [][\A b \in DOMAIN batches :
         (batches[b].status \in {"reserved", "sold"} /\ batches'[b].status = "available")
         => \E s \in DashUsers :
              /\ pc[s] = "restock"
              /\ pc'[s] = "idle"
              /\ arg[s].batch_id_to_restock = b
              /\ arg[s].order_id \in DOMAIN orders
              /\ b \in BatchesOf(arg[s].order_id)
              /\ orders[arg[s].order_id].status = "cancelled"]_vars

\* C11: the step that ends a placement attempt, on any of its paths, leaves the
\* row lock of the attempt's batch free, so that a later attempt is granted it.
ClaimC11 ==
    [][\A s \in PortalUsers :
         (pc[s] \in {"wait", "locked"} /\ pc'[s] = "idle")
         => lock'[arg[s].batch_id] = "none"]_vars

\* the payments of order o
PaymentsOf(o) == {q \in DOMAIN payments : payments[q].order_id = o}

\* C12: in every state each order has exactly one order item and exactly one
\* payment, and a placement that ends successfully adds exactly one order.
ClaimC12 ==
    /\ [](\A o \in DOMAIN orders :
            Len(ItemsOf(o)) = 1 /\ Cardinality(PaymentsOf(o)) = 1)
    /\ [][\A s \in PortalUsers :
            (pc[s] = "locked" /\ pc'[s] = "idle" /\ last' # "failed")
            => Cardinality(DOMAIN orders' \ DOMAIN orders) = 1]_vars
WitnessC12 ==
    /\ Cardinality(DOMAIN orders) = 2
    /\ \E o \in DOMAIN orders : orders[o].status = "cancelled"
    /\ \E q \in DOMAIN payments : payments[q].status = "completed"

\* C13: a placement whose notification raises still ends as a placed order:
\* a placement step that changes the tables never ends as "failed", and after
\* a raising notification the new order, its item, its pending payment and the
\* reserved batch are in the committed tables.
ClaimC13 ==
    [][\A s \in PortalUsers :
         (pc[s] = "locked" /\ pc'[s] = "idle") =>
            /\ ~(UNCHANGED db) => last' \in {"committed", "committed_unnotified"}
            /\ last' = "committed_unnotified" =>
                 \E o \in DOMAIN orders' \ DOMAIN orders :
                    /\ orders'[o].status = "placed"
                    /\ orders'[o].customer_id = s
                    /\ \E i \in 1..Len(items') :
                         items'[i] \notin {items[j] : j \in 1..Len(items)}
                         /\ items'[i].order_id = o
                         /\ items'[i].batch_id = arg[s].batch_id
                    /\ \E q \in DOMAIN payments' \ DOMAIN payments :
                         payments'[q].order_id = o /\ payments'[q].status = "pending"
                    /\ batches'[arg[s].batch_id].status = "reserved"]_vars
WitnessC13 ==
    /\ last = "committed_unnotified"
    /\ \E b \in DOMAIN batches : batches[b].status = "reserved"

\* C19: in every state each batch is referenced by at most one order whose
\* status is not cancelled.
ClaimC19 ==
    \A b \in DOMAIN batches :
        Cardinality({o \in DOMAIN orders :
                        b \in BatchesOf(o) /\ orders[o].status # "cancelled"}) <= 1

\* C20: no step changes the status of an order whose status is cancelled.
ClaimC20 ==
    [][\A o \in DOMAIN orders :
         orders[o].status = "cancelled" => orders'[o].status = "cancelled"]_vars

\* the committed donors that have phone ph
DonorsWith(ph) == {d \in DOMAIN donors : donors[d].phone = ph}

\* C14: an intake that commits with a phone no donor has adds exactly one donor,
\* who has that phone; with a phone a donor has it adds no donor and uses that
\* donor's id; either way it adds exactly one donation, of that donor, and
\* exactly one batch, linked to that donation.
ClaimC14 ==
    [][\A t \in IntakeSessions :
         (intake[t].pc = "batch" /\ intake'[t].pc = "idle" /\ last' = "don_committed")
         => LET ph == intake[t].phone IN
            \E n \in DOMAIN donations' \ DOMAIN donations :
            \E b \in DOMAIN batches' \ DOMAIN batches :
              /\ DOMAIN donations' = DOMAIN donations \cup {n}
              /\ \A x \in DOMAIN donations : donations'[x] = donations[x]
              /\ DOMAIN batches' = DOMAIN batches \cup {b}
              /\ \A x \in DOMAIN batches : batches'[x] = batches[x]
              /\ batches'[b].donation_id = n
              /\ \A x \in DOMAIN donors : x \in DOMAIN donors' /\ donors'[x] = donors[x]
              /\ IF DonorsWith(ph) = {}
                 THEN \E d \in DOMAIN donors' \ DOMAIN donors :
                        /\ DOMAIN donors' = DOMAIN donors \cup {d}
                        /\ donors'[d].phone = ph
                        /\ donations'[n].donor_id = d
                 ELSE /\ DOMAIN donors' = DOMAIN donors
                      /\ donations'[n].donor_id \in DonorsWith(ph)]_vars
WitnessC14 ==
    /\ last = "don_committed"
    /\ Cardinality(DOMAIN donors) = 1
    /\ \E m, n \in DOMAIN donations : m # n /\ donations[m].donor_id = donations[n].donor_id

\* C15: in every state no two donors have the same phone number.
ClaimC15 ==
    \A d, e \in DOMAIN donors : donors[d].phone = donors[e].phone => d = e
WitnessC15 ==
    /\ last = "don_duplicate"
    /\ Cardinality(DOMAIN donors) = 1

\* C16: every batch that a step adds has status available, the id of a
\* blood_types row and the id of a retailers row; in particular no step of the
\* admin, who has no retailers row, adds one.
ClaimC16 ==
    [][\A b \in DOMAIN batches' \ DOMAIN batches :
         /\ batches'[b].status = "available"
         /\ batches'[b].blood_type_id \in BloodTypes
         /\ batches'[b].retailer_id \in Retailers]_vars
WitnessC16 ==
    /\ last = "don_no_retailer"
    /\ \E b, c \in DOMAIN batches : batches[b].donation_id = 0 /\ batches[c].donation_id # 0

\* C17: when the donation insert or the batch insert of an intake fails, the
\* committed donors, donations and batches are as they were before the intake
\* wrote anything: its donor, its donation and its batch are absent.
ClaimC17 ==
    [][\A t \in IntakeSessions :
         (intake[t].pc \in {"donation", "batch"} /\ intake'[t].pc = "idle"
          /\ last' # "don_committed")
         => /\ UNCHANGED <<donors, donations, batches>>
            /\ intake[t].created => intake[t].donor_id \notin DOMAIN donors'
            /\ intake[t].donation_id \notin DOMAIN donations']_vars
WitnessC17 ==
    /\ last = "don_failed"
    /\ nextDonorId > 1 /\ donors = << >>
    /\ nextDonationId > 1 /\ donations = << >>

\* C18: the batch that a committed intake adds expires 35 days after the
\* collection date of the donation it is linked to.
ClaimC18 ==
    [][\A b \in DOMAIN batches' \ DOMAIN batches :
         batches'[b].donation_id # 0 =>
            /\ batches'[b].donation_id \in DOMAIN donations'
            /\ batches'[b].expiry_date =
                  donations'[batches'[b].donation_id].collected_at + ShelfLife]_vars

\* C21: in every state no order has status preparing, shipped or delivered
\* while a payment of it is pending.
ClaimC21 ==
    \A o \in DOMAIN orders : \A q \in PaymentsOf(o) :
        orders[o].status \in {"preparing", "shipped", "delivered"}
        => payments[q].status # "pending"

\* the WHERE clause of the browse listing of the Customer Portal
Browsable(row) == row.status = "available" /\ row.expiry_date >= today

\* C22: a placement step reserves a batch only if the browse listing shows it:
\* a batch whose expiry date is before the current date is never reserved.
ClaimC22 ==
    [][\A b \in DOMAIN batches :
         (batches[b].status # "reserved" /\ batches'[b].status = "reserved")
         => Browsable(batches[b])]_vars

\* C23: no step sets back to available the batch of an order that is
\* delivered, or that was delivered when its retailer requested the
\* cancellation whose restock this step is.
ClaimC23 ==
    [][\A b \in DOMAIN batches :
         (batches[b].status # "available" /\ batches'[b].status = "available")
         => /\ \A o \in DOMAIN orders :
                 b \in BatchesOf(o) => orders[o].status # "delivered"
            /\ \A s \in DashUsers :
                 (pc[s] = "restock" /\ pc'[s] = "idle" /\ arg[s].batch_id_to_restock = b)
                 => ~arg[s].delivered]_vars

\* C24: in every state the blood type of a batch that a donation intake made
\* is the blood type recorded for the donor of the donation it is linked to.
ClaimC24 ==
    \A b \in DOMAIN batches :
        batches[b].donation_id # 0 =>
            LET n == batches[b].donation_id IN
            /\ n \in DOMAIN donations
            /\ donations[n].donor_id \in DOMAIN donors
            /\ batches[b].blood_type_id = donors[donations[n].donor_id].blood_type_id

Next ==
    \/ \E s \in Users, p \in Prices, bt \in {1}, e \in {0} : AddInventory(s, p, bt, e)
    \/ \E s \in Users, b \in BatchIds : PlaceStart(s, b)
    \/ \E s \in Users : PlaceSelect(s)
    \/ \E s \in Users, raised \in BOOLEAN : PlaceCommit(s, raised)
    \/ \E s \in Users, k \in 1..4 : PlaceFail(s, k)
    \/ \E b \in BatchIds : ConnDrop(b)
    \/ \E s \in Users : ViewOrders(s)
    \/ \E s \in Users : OrdersCacheExpire(s)
    \/ \E s \in Users, o \in OrderIds : PayNow(s, o)
    \/ \E s \in Users, o \in OrderIds, k \in 1..2 : PayFail(s, o, k)
    \/ \E s \in Users, o \in OrderIds, ns \in NewStatuses : UpdateOrder(s, o, ns)
    \/ \E s \in Users : FetchItems(s)
    \/ \E o \in OrderIds : ItemsCacheExpire(o)
    \/ \E s \in Users : Restock(s)
    \/ \E s \in Users : RestockFail(s)

Spec == Init /\ [][Next]_vars

\* Stocking and donation intake on their own: both only add available batches
\* to the order workflow, which is left at rest here.
DonationNext ==
    \/ \E s \in Users, p \in Prices, bt \in BloodTypes, e \in ExpiryDates :
          AddInventory(s, p, bt, e)
    \/ \E t \in IntakeSessions, ph \in Phones, bt \in BloodTypes : DonationSubmit(t, ph, bt)
    \/ \E t \in IntakeSessions : DonationDonor(t)
    \/ \E t \in IntakeSessions : DonationDonation(t)
    \/ \E t \in IntakeSessions, p \in Prices : DonationCommit(t, p)
    \/ \E t \in IntakeSessions : DonationFail(t)
    \/ Midnight

DonationSpec == Init /\ [][DonationNext]_vars

\* Stocking, the passing of days and order placement on their own: what a
\* placement accepts of the stock as it ages.
ShelfNext ==
    \/ \E s \in Users, p \in Prices, bt \in BloodTypes, e \in ExpiryDates :
          AddInventory(s, p, bt, e)
    \/ Midnight
    \/ \E s \in Users, b \in BatchIds : PlaceStart(s, b)
    \/ \E s \in Users : PlaceSelect(s)
    \/ \E s \in Users, raised \in BOOLEAN : PlaceCommit(s, raised)
    \/ \E s \in Users, k \in 1..4 : PlaceFail(s, k)
    \/ \E b \in BatchIds : ConnDrop(b)

ShelfSpec == Init /\ [][ShelfNext]_vars
====
